---- MODULE Spec2Model ----
(***************************************************************************)
(* Shiftly-nest: generic CRUD services over a TypeORM repository           *)
(* (BaseAbstractService / CrudAbstractService), configuration loading and  *)
(* ZodService, the exception filters registered in bootstrap,              *)
(* PasswordService and UserService.registerUser.                           *)
(*                                                                         *)
(* The store is a relational table of the entity `User` (id, name, email,  *)
(* deleteAt, createdAt).  A transaction sees the committed table overlaid  *)
(* with its own uncommitted writes; a read made without a manager sees the *)
(* committed table only.                                                   *)
(***************************************************************************)
EXTENDS Integers, Sequences, FiniteSets, TLC

\* ------------------------------------------------------------------ bounds
MaxId == 2
MaxCalls == 2
MaxOps == 2
MaxPage == 2
MaxLimit == 2

Ids == 1..MaxId
Calls == 1..MaxCalls
NoTx == 0
Vals == {"a", "b"}
Absent == "-"

\* ------------------------------------------------------------- HTTP status
NOT_FOUND == 404
CONFLICT == 409
INTERNAL_SERVER_ERROR == 500

\* ------------------------------------------------------------------- rows
\* The entity: @PrimaryGeneratedColumn id, @Column email, @Column name,
\* @DeleteDateColumn deleteAt (TRUE = a timestamp is set), @CreateDateColumn.
\* the empty string as a password column value
NoSecret == [head |-> "", tail |-> ""]

NoRow == [id |-> 0, name |-> Absent, email |-> Absent, password |-> NoSecret,
          deleteAt |-> FALSE, createdAt |-> 0]
Untouched == [id |-> -1, name |-> Absent, email |-> Absent, password |-> NoSecret,
              deleteAt |-> FALSE, createdAt |-> 0]

Data == [name : Vals \cup {Absent}, email : Vals \cup {Absent}]
NoData == [name |-> Absent, email |-> Absent]

NoRes == [kind |-> "none", status |-> 0, entity |-> NoRow, success |-> FALSE]
NoOp == [kind |-> "none", id |-> 0, data |-> NoData]
NoRead == [kind |-> "none", mgr |-> NoTx, id |-> 0, key |-> Absent, threw |-> FALSE,
           row |-> NoRow, data |-> <<>>, total |-> 0, page |-> 0, limit |-> 0,
           filter |-> NoData, request |-> [page |-> 0, limit |-> 0],
           query |-> [skip |-> 0, take |-> 0]]

VARIABLES
  db,        \* committed table: id -> row or NoRow
  nextId,    \* the id sequence of @PrimaryGeneratedColumn
  txState,   \* per call: "None" | "Pending" | "Committed" | "RolledBack"
  writes,    \* per call: uncommitted writes of its transaction (NoRow = deleted)
  shareLock, \* per call: rows locked by pessimistic_read in its transaction
  shape,     \* per call: "none" | "owned" | "caller"
  pc,        \* per call: position inside the service method
  op,        \* per call: the operation being run and its arguments
  pre,       \* per call: the row the operation saw before it wrote
  res,       \* per call: what the operation returned or threw
  log,       \* per call: the operations run so far inside the caller's transaction
  txEvents,  \* per call: who began / committed / rolled back the transaction
  removed,   \* ids whose row a committed delete removed
  lastRead   \* result of the read operation that has just run

VARIABLES
  nodeEnv,   \* the validated NODE_ENV of the environment map
  zodEnv,    \* `env` of the exported singleton `zod` ("undefined" until assigned)
  diEnv,     \* `env` of the ZodService instance the Nest container manages
  boot,      \* position of the program's start-up
  isProduction, \* GlobalExceptionFilter.isProduction
  resp       \* the last response body GlobalExceptionFilter sent

VARIABLES
  rawEnv,    \* the environment map (process.env after dotenv) handed to validateEnv
  handled,   \* which filter answered the last exception, and the exception's class
  dbResp     \* the last response body DatabaseFilterException sent

VARIABLES
  cache,     \* per ZodService instance: its `cache` Map (key -> value, "-" = no entry)
  store,     \* what ConfigService.get returns for each key at the moment
  getRes     \* the outcome of the last ZodService.get

VARIABLES
  stored,    \* the password last protected and the hash protectPassword returned
  pwRes      \* the outcome of the last PasswordService call

VARIABLES
  host       \* per call: the call whose transaction manager it was handed

VARIABLES
  logged,    \* the last entry GlobalExceptionFilter.logError wrote
  inbound    \* the request whose exception GlobalExceptionFilter answered last

filterVars == <<nodeEnv, zodEnv, diEnv, boot, isProduction, resp>>

bootVars == <<rawEnv, handled, dbResp>>

zodVars == <<cache, store, getRes>>

pwVars == <<stored, pwRes>>

reqVars == <<logged, inbound>>

joinVars == <<host>>

extVars == <<bootVars, zodVars, pwVars, reqVars, joinVars>>

crudVars == <<db, nextId, txState, writes, shareLock, shape, pc, op, pre, res,
              log, txEvents, removed, lastRead>>

vars == <<db, nextId, txState, writes, shareLock, shape, pc, op, pre, res,
          log, txEvents, removed, lastRead,
          nodeEnv, zodEnv, diEnv, boot, isProduction, resp,
          rawEnv, handled, dbResp, cache, store, getRes, stored, pwRes,
          logged, inbound, host>>

\* ------------------------------------------------------- store visibility
\* the transaction a call's statements run in: its own, or the one of the
\* caller whose manager it was handed while that caller's callback is running
Tx(c) == IF shape[c] = "joint" THEN host[c] ELSE c

Visible(mgr, id) ==
  IF mgr # NoTx /\ writes[mgr][id] # Untouched THEN writes[mgr][id] ELSE db[id]

\* another transaction holds an uncommitted write (exclusive row lock) on id
WrittenByOther(mgr, id) == \E d \in Calls : d # mgr /\ writes[d][id] # Untouched

SharedByOther(mgr, id) == \E d \in Calls : d # mgr /\ id \in shareLock[d]

CanWrite(mgr, id) == ~WrittenByOther(mgr, id) /\ ~SharedByOther(mgr, id)

\* ------------------------------------------------------------ read service
\* repo.findOne({ where: { id }, lock, withDeleted: false })
FindOneByIDMut(id, mgr) == Visible(mgr, id)

FindOneByID(id, mgr) ==
  LET r == Visible(mgr, id)
  IN IF r # NoRow /\ ~r.deleteAt THEN r ELSE NoRow

\* ------------------------------------------------------------ CRUD service
\* repo.create(data) + repo.save(entity): the row an INSERT produces
\* the password column of the entity data handed to createEntity; the callers
\* that model name and email only leave it empty
PasswordColumn(data) == IF "password" \in DOMAIN data THEN data.password ELSE NoSecret

NewRowMut(id, data) ==
  [id |-> id, name |-> data.name, email |-> data.name, password |-> PasswordColumn(data),
   deleteAt |-> FALSE, createdAt |-> id]

NewRow(id, data) ==
  [id |-> id, name |-> data.name, email |-> data.email, password |-> PasswordColumn(data),
   deleteAt |-> FALSE, createdAt |-> id]

\* the columns are NOT NULL: an INSERT without one fails in the driver
InsertFails(data) == data.name = Absent \/ data.email = Absent

\* repo.update(id, data): the SET clause merges the fields named in data
Merge(row, data) ==
  [row EXCEPT !.name = IF data.name # Absent THEN data.name ELSE @,
              !.email = IF data.email # Absent THEN data.email ELSE @]

\* assertAffected: 0 = passes, otherwise the HTTP status of the HttpException
AssertAffectedMut(kind, affected) ==
  IF affected # 0 THEN 0 ELSE NOT_FOUND

AssertAffected(kind, affected) ==
  IF affected # 0 THEN 0
  ELSE IF kind = "update" THEN NOT_FOUND ELSE CONFLICT

\* updateEntityWithManager re-reads with this.findOneByID(id): no manager
RereadManager(mgr) == NoTx

\* createEntity / updateEntity / deleteEntity: `manager ? ...WithManager(manager)
\* : this.repository.manager.transaction(...)`: the service opens (and ends) a
\* transaction of its own exactly when no manager is supplied
OwnsTransactionMut(mgr) == TRUE

OwnsTransaction(mgr) == mgr = NoTx

\* manager.transaction(cb): commit when cb resolves, roll back when it rejects
TransactionOutcomeMut(threw) == "Committed"

TransactionOutcome(threw) == IF threw THEN "RolledBack" ELSE "Committed"

Entity(row) == [kind |-> "entity", status |-> 0, entity |-> row, success |-> FALSE]
Failure(status) == [kind |-> "error", status |-> status, entity |-> NoRow, success |-> FALSE]
DeleteResponse == [kind |-> "deleted", status |-> 0, entity |-> NoRow, success |-> TRUE]

FirstPc(kind) ==
  IF kind = "create" THEN "create" ELSE IF kind = "update" THEN "check" ELSE "delete"

\* data of a create: every column given, or one left out
CreateData == [name : Vals, email : Vals] \cup {[name |-> Absent, email |-> v] : v \in Vals}

OpArgs ==
  {[kind |-> "create", id |-> 0, data |-> d] : d \in CreateData}
  \cup {[kind |-> "update", id |-> i, data |-> d] : i \in Ids, d \in Data}
  \cup {[kind |-> "delete", id |-> i, data |-> NoData] : i \in Ids}

\* creates that were started and have not yet drawn their id
PendingCreates == Cardinality({c \in Calls : pc[c] = "create"})

CanStart(o) == o.kind = "create" => nextId + PendingCreates <= MaxId

\* the request handlers are interchangeable: a new call takes the first free slot
Free(c) == pc[c] = "idle" /\ \A d \in Calls : d < c => pc[d] # "idle"

CrudInit ==
  /\ db = [i \in Ids |-> NoRow]
  /\ nextId = 1
  /\ txState = [c \in Calls |-> "None"]
  /\ writes = [c \in Calls |-> [i \in Ids |-> Untouched]]
  /\ shareLock = [c \in Calls |-> {}]
  /\ shape = [c \in Calls |-> "none"]
  /\ pc = [c \in Calls |-> "idle"]
  /\ op = [c \in Calls |-> NoOp]
  /\ pre = [c \in Calls |-> NoRow]
  /\ res = [c \in Calls |-> NoRes]
  /\ log = [c \in Calls |-> <<>>]
  /\ txEvents = [c \in Calls |-> <<>>]
  /\ removed = {}
  /\ lastRead = NoRead
  /\ host = [c \in Calls |-> c]

\* createEntity / updateEntity / deleteEntity called without a manager:
\* this.repository.manager.transaction(trxManager => ...WithManager(..., trxManager))
StartOwned(c, o) ==
  /\ Free(c)
  /\ CanStart(o)
  /\ shape' = [shape EXCEPT ![c] = "owned"]
  /\ txState' = [txState EXCEPT ![c] = "Pending"]
  /\ txEvents' = [txEvents EXCEPT ![c] = <<"service.begin">>]
  /\ op' = [op EXCEPT ![c] = o]
  /\ pc' = [pc EXCEPT ![c] = FirstPc(o.kind)]
  /\ lastRead = NoRead /\ lastRead' = NoRead
  /\ UNCHANGED <<db, nextId, writes, shareLock, pre, res, log, removed>>
  /\ UNCHANGED <<filterVars, extVars>>

\* the caller opens the transaction: manager.transaction(async (tx) => { ... })
CallerBegin(c) ==
  /\ Free(c)
  /\ shape' = [shape EXCEPT ![c] = "caller"]
  /\ txState' = [txState EXCEPT ![c] = "Pending"]
  /\ txEvents' = [txEvents EXCEPT ![c] = <<"caller.begin">>]
  /\ pc' = [pc EXCEPT ![c] = "ready"]
  /\ lastRead = NoRead /\ lastRead' = NoRead
  /\ UNCHANGED <<db, nextId, writes, shareLock, op, pre, res, log, removed>>
  /\ UNCHANGED <<filterVars, extVars>>

\* createEntity(data, tx) / updateEntity(id, data, tx) / deleteEntity(id, tx)
CallerInvoke(c, o) ==
  /\ pc[c] = "ready"
  /\ Len(log[c]) < MaxOps
  /\ CanStart(o)
  /\ op' = [op EXCEPT ![c] = o]
  /\ pre' = [pre EXCEPT ![c] = NoRow]
  /\ res' = [res EXCEPT ![c] = NoRes]
  /\ pc' = [pc EXCEPT ![c] = FirstPc(o.kind)]
  /\ lastRead = NoRead /\ lastRead' = NoRead
  /\ UNCHANGED <<db, nextId, txState, writes, shareLock, shape, log, txEvents, removed>>
  /\ UNCHANGED <<filterVars, extVars>>

\* the callback of caller c starts a second service call on its manager before
\* the first has settled: Promise.all([updateEntity(id, p, tx), deleteEntity(id, tx)])
JoinInvoke(d, c, o) ==
  /\ Free(d)
  /\ d # c
  /\ shape[c] = "caller"
  /\ txState[c] = "Pending"
  /\ pc[c] \notin {"ready", "failed", "done"}
  /\ CanStart(o)
  /\ shape' = [shape EXCEPT ![d] = "joint"]
  /\ host' = [host EXCEPT ![d] = c]
  /\ op' = [op EXCEPT ![d] = o]
  /\ pc' = [pc EXCEPT ![d] = FirstPc(o.kind)]
  /\ lastRead = NoRead /\ lastRead' = NoRead
  /\ UNCHANGED <<db, nextId, txState, writes, shareLock, pre, res, log, txEvents, removed>>
  /\ UNCHANGED <<filterVars, bootVars, zodVars, pwVars, reqVars>>

\* createEntityWithManager
CreateStep(c) ==
  /\ pc[c] = "create"
  /\ lastRead = NoRead /\ lastRead' = NoRead
  /\ IF InsertFails(op[c].data)
     THEN /\ res' = [res EXCEPT ![c] = Failure(INTERNAL_SERVER_ERROR)]
          /\ pc' = [pc EXCEPT ![c] = "threw"]
          /\ UNCHANGED <<nextId, writes>>
     ELSE /\ nextId <= MaxId
          /\ writes' = [writes EXCEPT ![Tx(c)][nextId] = NewRow(nextId, op[c].data)]
          /\ nextId' = nextId + 1
          /\ res' = [res EXCEPT ![c] = Entity(NewRow(nextId, op[c].data))]
          /\ pc' = [pc EXCEPT ![c] = "returned"]
  /\ UNCHANGED <<db, txState, shareLock, shape, op, pre, log, txEvents, removed>>
  /\ UNCHANGED <<filterVars, extVars>>

\* updateEntityWithManager, the existence check: findOneByID(id, manager)
CheckStep(c) ==
  /\ pc[c] = "check"
  /\ LET id == op[c].id
         entity == FindOneByID(id, Tx(c))
     IN /\ entity # NoRow => ~WrittenByOther(Tx(c), id)
        /\ pre' = [pre EXCEPT ![c] = entity]
        /\ IF entity = NoRow
           THEN /\ res' = [res EXCEPT ![c] = Failure(NOT_FOUND)]
                /\ pc' = [pc EXCEPT ![c] = "threw"]
                /\ UNCHANGED shareLock
           ELSE /\ shareLock' = [shareLock EXCEPT ![Tx(c)] = @ \cup {id}]
                /\ pc' = [pc EXCEPT ![c] = "update"]
                /\ UNCHANGED res
  /\ lastRead = NoRead /\ lastRead' = NoRead
  /\ UNCHANGED <<db, nextId, txState, writes, shape, op, log, txEvents, removed>>
  /\ UNCHANGED <<filterVars, extVars>>

\* updateEntityWithManager: repo.update(id, data) and assertAffected
UpdateStep(c) ==
  /\ pc[c] = "update"
  /\ lastRead = NoRead /\ lastRead' = NoRead
  /\ LET id == op[c].id
         cur == Visible(Tx(c), id)
         affected == IF cur # NoRow THEN 1 ELSE 0
         status == AssertAffected("update", affected)
     IN IF op[c].data = NoData
        THEN \* UpdateValuesMissingError: nothing to SET
             /\ res' = [res EXCEPT ![c] = Failure(INTERNAL_SERVER_ERROR)]
             /\ pc' = [pc EXCEPT ![c] = "threw"]
             /\ UNCHANGED writes
        ELSE /\ CanWrite(Tx(c), id)
             /\ writes' = IF affected = 1
                          THEN [writes EXCEPT ![Tx(c)][id] = Merge(cur, op[c].data)]
                          ELSE writes
             /\ IF status # 0
                THEN /\ res' = [res EXCEPT ![c] = Failure(status)]
                     /\ pc' = [pc EXCEPT ![c] = "threw"]
                ELSE /\ pc' = [pc EXCEPT ![c] = "reread"]
                     /\ UNCHANGED res
  /\ UNCHANGED <<db, nextId, txState, shareLock, shape, op, pre, log, txEvents, removed>>
  /\ UNCHANGED <<filterVars, extVars>>

\* two transactions each hold the shared lock on a row the other wants to
\* write: the database aborts one statement with a deadlock error
DeadlockAbort(c) ==
  /\ pc[c] = "update"
  /\ op[c].data # NoData
  /\ \E d \in Calls :
       /\ d # c
       /\ op[c].id \in shareLock[d]
       /\ pc[d] = "update"
       /\ op[d].data # NoData
       /\ ~CanWrite(d, op[d].id)
       /\ op[d].id \in shareLock[c]
  /\ res' = [res EXCEPT ![c] = Failure(INTERNAL_SERVER_ERROR)]
  /\ pc' = [pc EXCEPT ![c] = "threw"]
  /\ lastRead = NoRead /\ lastRead' = NoRead
  /\ UNCHANGED <<db, nextId, txState, writes, shareLock, shape, op, pre, log, txEvents, removed>>
  /\ UNCHANGED <<filterVars, extVars>>

\* updateEntityWithManager: return await this.findOneByID(id)
RereadStep(c) ==
  /\ pc[c] = "reread"
  /\ res' = [res EXCEPT ![c] = Entity(FindOneByID(op[c].id, RereadManager(c)))]
  /\ pc' = [pc EXCEPT ![c] = "returned"]
  /\ lastRead = NoRead /\ lastRead' = NoRead
  /\ UNCHANGED <<db, nextId, txState, writes, shareLock, shape, op, pre, log, txEvents, removed>>
  /\ UNCHANGED <<filterVars, extVars>>

\* deleteEntityWithManager: repo.delete(id), assertAffected, DeleteResponse
DeleteStep(c) ==
  /\ pc[c] = "delete"
  /\ lastRead = NoRead /\ lastRead' = NoRead
  /\ LET id == op[c].id
         cur == Visible(Tx(c), id)
         affected == IF cur # NoRow THEN 1 ELSE 0
         status == AssertAffected("delete", affected)
     IN /\ cur # NoRow => CanWrite(Tx(c), id)
        /\ pre' = [pre EXCEPT ![c] = cur]
        /\ writes' = IF affected = 1 THEN [writes EXCEPT ![Tx(c)][id] = NoRow]
                     ELSE writes
        /\ IF status # 0
           THEN /\ res' = [res EXCEPT ![c] = Failure(status)]
                /\ pc' = [pc EXCEPT ![c] = "threw"]
           ELSE /\ res' = [res EXCEPT ![c] = DeleteResponse]
                /\ pc' = [pc EXCEPT ![c] = "returned"]
  /\ UNCHANGED <<db, nextId, txState, shareLock, shape, op, log, txEvents, removed>>
  /\ UNCHANGED <<filterVars, extVars>>

\* the manager the caller handed to the service method
Manager(c) ==
  IF shape[c] = "caller" THEN c ELSE IF shape[c] = "joint" THEN host[c] ELSE NoTx

Applied(c) == [i \in Ids |-> IF writes[c][i] # Untouched THEN writes[c][i] ELSE db[i]]

Tombstones(c) == {i \in Ids : writes[c][i] = NoRow}

\* what the caller's callback has run so far: the operation and the row it hit
LogEntry(c) ==
  [kind |-> op[c].kind,
   id |-> IF op[c].kind = "create" THEN res[c].entity.id ELSE op[c].id]

\* the service method settles: in the owned shape manager.transaction commits or
\* rolls back and the promise reaches the caller; with a manager supplied the
\* result goes back into the caller's callback
ServiceEnd(c) ==
  /\ pc[c] \in {"returned", "threw"}
  /\ LET threw == pc[c] = "threw"
         outcome == TransactionOutcome(threw)
     IN /\ IF OwnsTransaction(Manager(c)) /\ txState[c] = "Pending"
           THEN /\ txState' = [txState EXCEPT ![c] = outcome]
                /\ db' = IF outcome = "Committed" THEN Applied(c) ELSE db
                /\ removed' = IF outcome = "Committed" THEN removed \cup Tombstones(c)
                              ELSE removed
                /\ writes' = [writes EXCEPT ![c] = [i \in Ids |-> Untouched]]
                /\ shareLock' = [shareLock EXCEPT ![c] = {}]
                /\ txEvents' = [txEvents EXCEPT ![c] =
                                  Append(@, IF outcome = "Committed" THEN "service.commit"
                                            ELSE "service.rollback")]
           ELSE UNCHANGED <<txState, db, removed, writes, shareLock, txEvents>>
        /\ IF shape[c] \in {"owned", "joint"}
           THEN /\ pc' = [pc EXCEPT ![c] = "done"]
                /\ UNCHANGED log
           ELSE /\ pc' = [pc EXCEPT ![c] = IF threw THEN "failed" ELSE "ready"]
                /\ log' = [log EXCEPT ![c] = Append(@, LogEntry(c))]
  /\ lastRead = NoRead /\ lastRead' = NoRead
  /\ UNCHANGED <<nextId, shape, op, pre, res>>
  /\ UNCHANGED <<filterVars, extVars>>

\* the calls running on the manager of caller c
Joined(c) == {d \in Calls : shape[d] = "joint" /\ host[d] = c}

JoinedThrew(c) == \E d \in Joined(c) : res[d].kind = "error"

\* the caller's manager.transaction(...) callback ends: it resolves after at least
\* one operation, or the operation's error propagates out of it
CallerEnd(c) ==
  /\ shape[c] = "caller"
  /\ \/ pc[c] = "failed"
     \/ pc[c] = "ready" /\ Len(log[c]) >= 1
  /\ \A d \in Joined(c) : pc[d] = "done"
  /\ LET outcome == TransactionOutcome(pc[c] = "failed" \/ JoinedThrew(c))
     IN IF txState[c] = "Pending"
        THEN /\ txState' = [txState EXCEPT ![c] = outcome]
             /\ db' = IF outcome = "Committed" THEN Applied(c) ELSE db
             /\ removed' = IF outcome = "Committed" THEN removed \cup Tombstones(c)
                           ELSE removed
             /\ writes' = [writes EXCEPT ![c] = [i \in Ids |-> Untouched]]
             /\ shareLock' = [shareLock EXCEPT ![c] = {}]
             /\ txEvents' = [txEvents EXCEPT ![c] =
                               Append(@, IF outcome = "Committed" THEN "caller.commit"
                                         ELSE "caller.rollback")]
        ELSE UNCHANGED <<txState, db, removed, writes, shareLock, txEvents>>
  /\ pc' = [pc EXCEPT ![c] = "done"]
  /\ lastRead = NoRead /\ lastRead' = NoRead
  /\ UNCHANGED <<nextId, shape, op, pre, res, log>>
  /\ UNCHANGED <<filterVars, extVars>>

\* the call is over; the slot serves the next request
Reset(c) ==
  /\ pc[c] = "done"
  /\ shape[c] = "joint" => pc[host[c]] \in {"done", "idle"}
  /\ Joined(c) = {}
  /\ pc' = [pc EXCEPT ![c] = "idle"]
  /\ shape' = [shape EXCEPT ![c] = "none"]
  /\ txState' = [txState EXCEPT ![c] = "None"]
  /\ op' = [op EXCEPT ![c] = NoOp]
  /\ pre' = [pre EXCEPT ![c] = NoRow]
  /\ res' = [res EXCEPT ![c] = NoRes]
  /\ log' = [log EXCEPT ![c] = <<>>]
  /\ txEvents' = [txEvents EXCEPT ![c] = <<>>]
  /\ lastRead = NoRead /\ lastRead' = NoRead
  /\ UNCHANGED <<db, nextId, writes, shareLock, removed>>
  /\ UNCHANGED <<filterVars, extVars>>

\* @DeleteDateColumn deleteAt: a soft delete stamps the column of a live row
SoftDelete(id) ==
  /\ db[id] # NoRow
  /\ ~db[id].deleteAt
  /\ CanWrite(NoTx, id)
  /\ db' = [db EXCEPT ![id].deleteAt = TRUE]
  /\ lastRead = NoRead /\ lastRead' = NoRead
  /\ UNCHANGED <<nextId, txState, writes, shareLock, shape, pc, op, pre, res, log,
                 txEvents, removed>>
  /\ UNCHANGED <<filterVars, extVars>>

\* ------------------------------------------------------ read operations
\* a read runs on the repository (NoTx) or on the manager of a caller's
\* transaction, between two of its operations
Managers == {NoTx} \cup {c \in Calls : pc[c] = "ready" /\ txState[c] = "Pending"}

Keys ==
  {[num |-> TRUE, n |-> i, s |-> Absent] : i \in Ids}
  \cup {[num |-> FALSE, n |-> 0, s |-> v] : v \in Vals}

\* `lock: manager ? { mode: 'pessimistic_read' } : undefined`: a locking read
\* waits for the writer of the row, then holds a shared lock on it
LockGranted(mgr, row) == (mgr # NoTx /\ row # NoRow) => ~WrittenByOther(mgr, row.id)

Locked(mgr, row) ==
  IF mgr # NoTx /\ row # NoRow
  THEN [shareLock EXCEPT ![mgr] = @ \cup {row.id}]
  ELSE shareLock

\* findOneByID(id, manager?)
ReadById(id, mgr) ==
  /\ lastRead = NoRead
  /\ mgr \in Managers
  /\ LET row == FindOneByID(id, mgr)
     IN /\ LockGranted(mgr, row)
        /\ shareLock' = Locked(mgr, row)
        /\ lastRead' = [NoRead EXCEPT !.kind = "byId", !.mgr = mgr, !.id = id, !.row = row]
  /\ UNCHANGED <<db, nextId, txState, writes, shape, pc, op, pre, res, log, txEvents, removed>>
  /\ UNCHANGED <<filterVars, extVars>>

\* the entity User has the columns id, email, name, password, avatar, deleteAt,
\* createdAt: there is no column userRef
HasUserRef == FALSE

\* findOneByIdOrEmail: where { email } with withDeleted: false
EmailMatches(key, mgr) ==
  {r \in {Visible(mgr, i) : i \in Ids} : r # NoRow /\ ~r.deleteAt /\ r.email = key.s}

\* findOneByIdOrEmail(idOrEmail, manager?): a number is looked up in userRef,
\* which the entity does not have (EntityPropertyNotFoundError); a string in email
ReadByIdOrEmail(key, mgr) ==
  /\ lastRead = NoRead
  /\ mgr \in Managers
  /\ IF key.num
     THEN /\ ~HasUserRef
          /\ lastRead' = [NoRead EXCEPT !.kind = "byKey", !.mgr = mgr, !.id = key.n,
                                        !.threw = TRUE]
          /\ UNCHANGED shareLock
     ELSE \E row \in (IF EmailMatches(key, mgr) = {} THEN {NoRow} ELSE EmailMatches(key, mgr)) :
            /\ LockGranted(mgr, row)
            /\ shareLock' = Locked(mgr, row)
            /\ lastRead' = [NoRead EXCEPT !.kind = "byKey", !.mgr = mgr, !.key = key.s,
                                          !.row = row]
  /\ UNCHANGED <<db, nextId, txState, writes, shape, pc, op, pre, res, log, txEvents, removed>>
  /\ UNCHANGED <<filterVars, extVars>>

\* findAll: where { ...filter, deletedAt: null }, withDeleted: false.  The entity's
\* column is deleteAt; a null-valued where key adds no condition, so the
\* soft-deleted rows are excluded by withDeleted: false alone
MatchesFilter(r, filter) ==
  /\ filter.name # Absent => r.name = filter.name
  /\ filter.email # Absent => r.email = filter.email

Matching(filter, mgr) ==
  {r \in {Visible(mgr, i) : i \in Ids} : r # NoRow /\ ~r.deleteAt /\ MatchesFilter(r, filter)}

\* order: { createdAt: 'DESC' }
RECURSIVE OrderByCreatedAtDesc(_)
OrderByCreatedAtDesc(S) ==
  IF S = {} THEN <<>>
  ELSE LET m == CHOOSE r \in S : \A q \in S : q.createdAt <= r.createdAt
       IN <<m>> \o OrderByCreatedAtDesc(S \ {m})

\* the filters of a pagination request: none, or equality on name and/or email
Filters == {f \in Data : f.name \in {Absent, "a"} /\ f.email \in {Absent, "a"}}

Min(a, b) == IF a <= b THEN a ELSE b

\* skip: (page - 1) * limit, take: limit
SkipTakeMut(rows, skip, take) == SubSeq(rows, skip + 1, Len(rows))

\* a zero `take` puts no LIMIT on the statement
SkipTake(rows, skip, take) ==
  IF take = 0 THEN SubSeq(rows, skip + 1, Len(rows))
  ELSE SubSeq(rows, skip + 1, Min(skip + take, Len(rows)))

\* the options findAll hands to repo.findAndCount
FindAllQuery(page, limit) == [skip |-> (page - 1) * limit, take |-> limit]

\* the database refuses a negative OFFSET or LIMIT
StoreRejects(query) == query.skip < 0 \/ query.take < 0

FindAllResultMut(page, limit, filter, mgr) ==
  [data |-> SkipTake(OrderByCreatedAtDesc(Matching(filter, mgr)), page * limit, limit),
   total |-> Cardinality(Matching(filter, mgr)),
   page |-> page,
   limit |-> limit]

FindAllResult(page, limit, filter, mgr) ==
  [data |-> SkipTake(OrderByCreatedAtDesc(Matching(filter, mgr)), (page - 1) * limit, limit),
   total |-> Cardinality(Matching(filter, mgr)),
   page |-> page,
   limit |-> limit]

\* findAll(pagination, manager?)
ReadAll(page, limit, filter, mgr) ==
  /\ lastRead = NoRead
  /\ mgr \in Managers
  /\ LET query == FindAllQuery(page, limit)
         asked == [NoRead EXCEPT !.kind = "all", !.mgr = mgr, !.filter = filter,
                                 !.request = [page |-> page, limit |-> limit],
                                 !.query = query]
     IN IF StoreRejects(query)
        THEN lastRead' = [asked EXCEPT !.threw = TRUE]
        ELSE LET r == FindAllResult(page, limit, filter, mgr)
             IN lastRead' = [asked EXCEPT !.data = r.data, !.total = r.total,
                                          !.page = r.page, !.limit = r.limit]
  /\ UNCHANGED <<db, nextId, txState, writes, shareLock, shape, pc, op, pre, res, log,
                 txEvents, removed>>
  /\ UNCHANGED <<filterVars, extVars>>

\* the read's promise resolves: its result has been handed to the caller
ReadReturn ==
  /\ lastRead # NoRead
  /\ lastRead' = NoRead
  /\ UNCHANGED <<db, nextId, txState, writes, shareLock, shape, pc, op, pre, res, log,
                 txEvents, removed>>
  /\ UNCHANGED <<filterVars, extVars>>

\* no operation of the service is in flight
Quiet == \A c \in Calls : pc[c] \in {"idle", "ready", "done"}

\* one client: it issues its calls, and its reads, one after the other
Clients == {1}

Next ==
  \/ \E c \in Clients, o \in OpArgs : StartOwned(c, o)
  \/ \E c \in Clients : CallerBegin(c)
  \/ \E c \in Clients, o \in OpArgs : CallerInvoke(c, o)
  \/ \E c \in Clients : CreateStep(c)
  \/ \E c \in Clients : CheckStep(c)
  \/ \E c \in Clients : UpdateStep(c)
  \/ \E c \in Clients : RereadStep(c)
  \/ \E c \in Clients : DeleteStep(c)
  \/ \E c \in Clients : ServiceEnd(c)
  \/ \E c \in Clients : CallerEnd(c)
  \/ \E c \in Clients : Reset(c)
  \/ \E i \in Ids : SoftDelete(i)
  \/ Quiet /\ \E i \in Ids, m \in Calls \cup {NoTx} : ReadById(i, m)
  \/ Quiet /\ \E k \in Keys, m \in Calls \cup {NoTx} : ReadByIdOrEmail(k, m)
  \/ Quiet /\ \E p \in 1..MaxPage, l \in 1..MaxLimit, f \in Filters, m \in Calls \cup {NoTx} :
       ReadAll(p, l, f, m)
  \/ ReadReturn

\* ------------------------------------------------ configuration singleton
Undefined == "undefined"
Envs == {"development", "production"}

\* ZodService.isProd: this.env === 'production'
IsProd(env) == env = "production"

\* ZodService.isDev: this.env === 'development'
IsDev(env) == env = "development"

\* --------------------------------------------- the environment and its schema
\* the keys of the environment map the model follows
ConfigKeys == {"NODE_ENV", "APP_PORT", "APP_PREFIX", "DATABASE_URL",
               "FRONTEND_DEV_URL", "FRONTEND_PROD_URL"}

\* environment maps: each key absent ("-") or a string
RawEnvs ==
  [NODE_ENV : {Absent, "development", "production", "staging"},
   APP_PORT : {Absent, "3010", "65535", "abc", "0"},
   APP_PREFIX : {Absent, "", "/api"},
   DATABASE_URL : {"postgresql://db"},
   FRONTEND_DEV_URL : {"http://dev"},
   FRONTEND_PROD_URL : {"https://prod"}]

DefaultEnv == [NODE_ENV |-> "development", APP_PORT |-> "3010", APP_PREFIX |-> "/api",
               DATABASE_URL |-> "postgresql://db", FRONTEND_DEV_URL |-> "http://dev",
               FRONTEND_PROD_URL |-> "https://prod"]

\* the values a configuration holds: undefined, null, a string or a number
Undef == [type |-> "undefined", text |-> "", num |-> 0]

Null == [type |-> "null", text |-> "", num |-> 0]

Str(s) == [type |-> "string", text |-> s, num |-> 0]

Num(n) == [type |-> "number", text |-> "", num |-> n]

\* Number(config.APP_PORT): undefined and non-numeric text give NaN
ToNumber(s) ==
  IF s = "3010" THEN [nan |-> FALSE, n |-> 3010]
  ELSE IF s = "65535" THEN [nan |-> FALSE, n |-> 65535]
  ELSE IF s = "0" THEN [nan |-> FALSE, n |-> 0]
  ELSE [nan |-> TRUE, n |-> 0]

\* NODE_ENV: z.enum(['development', 'production']).default('development')
NodeEnvOk(v) == v = Absent \/ v \in Envs

ParsedNodeEnv(v) == IF v = Absent THEN "development" ELSE v

\* APP_PORT: z.coerce.number().int().positive().max(65535).default(3010); the
\* value handed to the schema is already a number, so the default never applies
AppPortOk(num) == ~num.nan /\ num.n > 0 /\ num.n <= 65535

\* result.data.APP_PORT of a successful parse: the number it was given
ParsedAppPort(num) == num.n

\* APP_PREFIX: z.string().trim(): required, the empty string passes
AppPrefixOkMut(v) == TRUE

AppPrefixOk(v) == v # Absent

\* DATABASE_URL, FRONTEND_DEV_URL, FRONTEND_PROD_URL: z.string().trim().url()
UrlOk(v) == v \in {"postgresql://db", "http://dev", "https://prod"}

SchemaOk(raw) ==
  /\ NodeEnvOk(raw.NODE_ENV)
  /\ AppPortOk(ToNumber(raw.APP_PORT))
  /\ AppPrefixOk(raw.APP_PREFIX)
  /\ UrlOk(raw.DATABASE_URL)
  /\ UrlOk(raw.FRONTEND_DEV_URL)
  /\ UrlOk(raw.FRONTEND_PROD_URL)

\* validateEnv: GlobalSchema.safeParse(processedConfig); on failure the errors
\* are printed and process.exit(1); on success result.data is returned
ValidateEnv(raw) ==
  IF SchemaOk(raw)
  THEN [success |-> TRUE,
        data |-> [NODE_ENV |-> Str(ParsedNodeEnv(raw.NODE_ENV)),
                  APP_PORT |-> Num(ParsedAppPort(ToNumber(raw.APP_PORT))),
                  APP_PREFIX |-> Str(raw.APP_PREFIX),
                  DATABASE_URL |-> Str(raw.DATABASE_URL),
                  FRONTEND_DEV_URL |-> Str(raw.FRONTEND_DEV_URL),
                  FRONTEND_PROD_URL |-> Str(raw.FRONTEND_PROD_URL)]]
  ELSE [success |-> FALSE, data |-> [k \in ConfigKeys |-> Undef]]

NoConfig == [k \in ConfigKeys |-> Undef]

\* new ConfigService<EnvVariables>(parseEnv): what ConfigService.get finds per key
ConfigOf(data) == [k \in ConfigKeys |-> data[k]]

\* ---------------------------------------------------------- ZodService.get
\* the two instances of the program: the exported singleton `zod`, built by
\* new ZodService(...), and the provider the Nest container manages
Instances == {"zod", "di"}

NoCache == [i \in Instances |-> [k \in ConfigKeys |-> Undef]]

NoGet == [inst |-> "none", via |-> "none", key |-> Absent, threw |-> FALSE,
          value |-> Undef, variable |-> Absent, env |-> Absent]

\* this.env of an instance
InstEnv(inst) == IF inst = "zod" THEN zodEnv ELSE diEnv

\* value === undefined || value === null || value === ''
Missing(value) == value \in {Undef, Null, Str("")}

\* this.cache.has(key)
CacheHitMut(c, key) == FALSE

CacheHit(c, key) == c[key] # Undef

\* new EnvVariablesError(String(key), this.env): the message names both
EnvVariablesError(inst, key, env) ==
  [inst |-> inst, via |-> "get", key |-> key, threw |-> TRUE, value |-> Undef,
   variable |-> key, env |-> env]

\* get(key): the cached value; else configService.get(key), which is cached and
\* returned unless it is missing
ZodGetMut(inst, key) ==
  IF Missing(store[key])
  THEN [res |-> EnvVariablesError(inst, key, InstEnv(inst)), cache |-> cache]
  ELSE [res |-> [inst |-> inst, via |-> "get", key |-> key, threw |-> FALSE,
                 value |-> store[key], variable |-> Absent, env |-> Absent],
        cache |-> [cache EXCEPT ![inst] = store]]

ZodGet(inst, key) ==
  IF CacheHit(cache[inst], key)
  THEN [res |-> [inst |-> inst, via |-> "get", key |-> key, threw |-> FALSE,
                 value |-> cache[inst][key], variable |-> Absent, env |-> Absent],
        cache |-> cache]
  ELSE IF Missing(store[key])
  THEN [res |-> EnvVariablesError(inst, key, InstEnv(inst)), cache |-> cache]
  ELSE [res |-> [inst |-> inst, via |-> "get", key |-> key, threw |-> FALSE,
                 value |-> store[key], variable |-> Absent, env |-> Absent],
        cache |-> [cache EXCEPT ![inst][key] = store[key]]]

ZodIdle ==
  /\ cache = NoCache
  /\ store = ConfigOf(ValidateEnv(DefaultEnv).data)
  /\ getRes = NoGet

\* ------------------------------------------------------- exceptions thrown
BAD_REQUEST == 400
GenericMessage == "An unexpected error occurred. Please contact support."
UnknownErrorOccurred == "Unknown error occurred"
Msgs == {"m1", "m2"}
Stacks == {"s1", "s2"}

\* what a handler can throw: an HttpException (status, getResponse() a string, an
\* object with a string `message`, or an object without one), another Error
\* (message, stack), or a value that is no Error
\* HttpException.initMessage: the message is taken from the response
HttpMessage(payloadKind, text) ==
  IF payloadKind \in {"string", "object"} THEN text ELSE "Http Exception"

Exceptions ==
  {[class |-> "HttpException", status |-> st, payloadKind |-> k, text |-> t,
    message |-> HttpMessage(k, t), stack |-> sk, code |-> Absent,
    codeType |-> "undefined", details |-> Absent] :
      st \in {BAD_REQUEST, NOT_FOUND}, k \in {"string", "object", "objectNoMessage"},
      t \in Msgs, sk \in {"s1"}}
  \cup {[class |-> "Error", status |-> 0, payloadKind |-> "none", text |-> "",
         message |-> m, stack |-> sk, code |-> Absent, codeType |-> "undefined",
         details |-> Absent] : m \in Msgs \cup {""}, sk \in Stacks}
  \cup {[class |-> "Other", status |-> 0, payloadKind |-> "none", text |-> t,
         message |-> "", stack |-> "", code |-> Absent, codeType |-> "undefined",
         details |-> Absent] : t \in Msgs \cup {""}}

\* TYPEORM_ERROR_MESSAGES[code] ("" = no entry)
TYPEORM_ERROR_MESSAGES(code) ==
  IF code = "ER_DUP_ENTRY" THEN "Unique key violation detected."
  ELSE IF code = "ER_NO_REFERENCED_ROW" THEN "Foreign key constraint violation."
  ELSE IF code = "ER_NO_DEFAULT_FOR_FIELD" THEN "A required field is missing."
  ELSE IF code = "ER_LOCK_DEADLOCK" THEN "A database deadlock was detected."
  ELSE IF code = "ER_QUERY_INTERRUPTED" THEN "The query was interrupted."
  ELSE IF code = "ER_SYNTAX_ERROR" THEN "SQL syntax error."
  ELSE IF code = "ER_ACCESS_DENIED_ERROR" THEN "Database access denied."
  ELSE IF code = "ER_UNKNOWN_ERROR" THEN "An unknown TypeORM error occurred."
  ELSE ""

\* PG_ERROR_MESSAGES[code] ("" = no entry)
PG_ERROR_MESSAGES(code) ==
  IF code = "23505" THEN "This field must be unique. This record already exists."
  ELSE IF code = "23503" THEN "Foreign key violation."
  ELSE IF code = "23502" THEN "A required field is missing."
  ELSE IF code = "08001" THEN "Failed to connect to the database."
  ELSE IF code = "40P01" THEN "A deadlock was detected."
  ELSE ""

\* new TypeOrmError(code, message?, details?)
TypeOrmError(code, message, details) ==
  [class |-> "TypeOrmError", status |-> 0, payloadKind |-> "none", text |-> "",
   message |-> IF TYPEORM_ERROR_MESSAGES(code) # "" THEN TYPEORM_ERROR_MESSAGES(code)
               ELSE IF message \notin {Absent, ""} THEN message
               ELSE "Unknown TypeORM error",
   stack |-> "s1", code |-> code, codeType |-> "string", details |-> details]

\* new DatabaseError(code, message, details?)
DatabaseError(code, message, details) ==
  [class |-> "DatabaseError", status |-> 0, payloadKind |-> "none", text |-> "",
   message |-> IF PG_ERROR_MESSAGES(code) # "" THEN PG_ERROR_MESSAGES(code) ELSE message,
   stack |-> "s1", code |-> code, codeType |-> "string", details |-> details]

\* a QueryFailedError and its driverError: absent, an object without `code`, or
\* an object whose `code` is a number or a string
QueryFailedError(codeType, code) ==
  [class |-> "QueryFailedError", status |-> 0, payloadKind |-> "none", text |-> "",
   message |-> "m1", stack |-> "s1", code |-> code, codeType |-> codeType,
   details |-> Absent]

\* ErrorDetails values: undefined ("-"), { source }, { detail, source }
DetailsVals == {Absent, "source", "detail+source"}

DbExceptions ==
  {QueryFailedError("string", c) : c \in {"23505", "23503", "23502", "08001", "ER_DUP_ENTRY"}}
  \cup {QueryFailedError("number", "23505"), QueryFailedError("undefined", Absent),
        QueryFailedError("noDriverError", Absent)}
  \cup {TypeOrmError(c, m, d) :
          c \in {"ER_DUP_ENTRY", "X1"}, m \in Msgs \cup {Absent}, d \in DetailsVals}
  \cup {DatabaseError(c, m, d) : c \in {"23505", "X1"}, m \in Msgs, d \in DetailsVals}

DbClasses == {"QueryFailedError", "TypeOrmError", "DatabaseError"}

\* exception instanceof Error
IsError(e) == e.class \in {"Error"} \cup DbClasses

\* request.headers['x-request-id']: undefined, a string, or a string[]
Headers ==
  {[type |-> "undefined", text |-> ""], [type |-> "array", text |-> "r1"]}
  \cup {[type |-> "string", text |-> t] : t \in {" ", "r1", " r1 "}}

Requests == [header : Headers, url : {"/a", "/b"}]

NoRequest == [header |-> [type |-> "undefined", text |-> ""], url |-> ""]

\* randomUUID()
Uuids == {"u1", "u2"}

\* new Date().toISOString()
Timestamps == {"t1"}

\* ------------------------------------------------ GlobalExceptionFilter
NoDetails == [present |-> FALSE, kind |-> "none", text |-> "", message |-> "", stack |-> ""]

NoResp == [sent |-> FALSE, httpStatus |-> 0, success |-> FALSE, statusCode |-> 0,
           error |-> "", requestId |-> "", timestamp |-> "", path |-> "",
           message |-> "", details |-> NoDetails]

NoLog == [written |-> FALSE, tag |-> "", requestId |-> "", error |-> "", path |-> ""]

\* getStatusCode
GetStatusCodeMut(e) == INTERNAL_SERVER_ERROR

GetStatusCode(e) ==
  IF e.class = "HttpException" THEN e.status ELSE INTERNAL_SERVER_ERROR

\* getErrorType: exception.constructor.name
GetErrorType(e) ==
  IF e.class = "HttpException" THEN "HttpException"
  ELSE IF IsError(e) THEN e.class
  ELSE "InternalServerError"

\* getErrorMessage
GetErrorMessage(e, prod) ==
  IF prod THEN GenericMessage
  ELSE IF e.class = "HttpException"
       THEN IF e.payloadKind \in {"string", "object"} THEN e.text ELSE e.message
  ELSE IF IsError(e)
       THEN IF e.message # "" THEN e.message ELSE UnknownErrorOccurred
  ELSE IF e.text # "" THEN e.text ELSE UnknownErrorOccurred

\* getErrorDetails
GetErrorDetails(e) ==
  IF e.class = "HttpException"
  THEN [present |-> TRUE, kind |-> e.payloadKind, text |-> e.text, message |-> "",
        stack |-> ""]
  ELSE IF IsError(e)
  THEN [present |-> TRUE, kind |-> "error", text |-> "", message |-> e.message,
        stack |-> e.stack]
  ELSE [present |-> TRUE, kind |-> "value", text |-> e.text, message |-> "", stack |-> ""]

\* String.prototype.trim
Trim(t) == IF t = " " THEN "" ELSE IF t = " r1 " THEN "r1" ELSE t

\* headerId.trim().length > 0 fails
Blank(h) == Trim(h) = ""

\* getRequestId: the x-request-id header when it is a non-blank string, else a
\* fresh randomUUID()
GetRequestIdMut(request, uuid) ==
  IF request.header.type = "string" THEN request.header.text ELSE uuid

GetRequestId(request, uuid) ==
  IF request.header.type = "string" /\ ~Blank(request.header.text)
  THEN request.header.text ELSE uuid

\* logError: the entry's tag `[requestId]` and its requestId field; `error` is the
\* class name in production and the message otherwise
LogError(e, request, requestId, prod) ==
  [written |-> TRUE,
   tag |-> requestId,
   requestId |-> requestId,
   error |-> IF prod THEN (IF e.class # "Other" THEN e.class ELSE "UnknownError")
             ELSE (IF e.class # "Other" THEN e.message ELSE "Unknown error"),
   path |-> request.url]

\* prepareResponse
PrepareResponse(e, request, requestId, prod, timestamp) ==
  [sent |-> FALSE,
   httpStatus |-> 0,
   success |-> FALSE,
   statusCode |-> GetStatusCode(e),
   error |-> GetErrorType(e),
   requestId |-> requestId,
   timestamp |-> timestamp,
   path |-> request.url,
   message |-> GetErrorMessage(e, prod),
   details |-> IF prod THEN NoDetails ELSE GetErrorDetails(e)]

\* ---------------------------------------------- DatabaseFilterException
NoDbResp == [sent |-> FALSE, statusCode |-> 0, success |-> FALSE, error |-> "",
             code |-> Absent, message |-> "", details |-> Absent]

NoHandled == [by |-> "none", class |-> "none", status |-> 0, code |-> Absent,
              codeType |-> "undefined"]

\* the filter that answered, and the exception it was given
HandledBy(f, e) ==
  [by |-> f, class |-> e.class, status |-> e.status, code |-> e.code,
   codeType |-> e.codeType]

\* sqlErrorCode: driverError.code when driverError is an object and the code a string
SqlErrorCode(e) == IF e.codeType = "string" THEN e.code ELSE Absent

\* switch (sqlErrorCode): the status of the response
SqlStatusMut(sqlErrorCode) ==
  IF sqlErrorCode = "23505" THEN CONFLICT
  ELSE IF sqlErrorCode \in {"23503", "23502"} THEN BAD_REQUEST
  ELSE BAD_REQUEST

SqlStatus(sqlErrorCode) ==
  IF sqlErrorCode = "23505" THEN CONFLICT
  ELSE IF sqlErrorCode \in {"23503", "23502"} THEN BAD_REQUEST
  ELSE INTERNAL_SERVER_ERROR

\* switch (sqlErrorCode): the `error` of the body
SqlError(sqlErrorCode) ==
  IF sqlErrorCode = "23505" THEN "Conflict"
  ELSE IF sqlErrorCode \in {"23503", "23502"} THEN "Bad Request"
  ELSE "Database Error"

\* switch (sqlErrorCode): the `message` of the body
SqlMessage(sqlErrorCode) ==
  IF sqlErrorCode = "23505" THEN "Duplicate entry. Unique constraint violated."
  ELSE IF sqlErrorCode = "23503" THEN "Foreign key constraint violation."
  ELSE IF sqlErrorCode = "23502" THEN "Missing required field."
  ELSE "An unknown database error occurred."

\* DatabaseFilterException.catch: the body handed to response.status(..).json(..);
\* the body of a custom error carries exception.details whatever the environment
DbBody(e) ==
  IF e.class = "QueryFailedError"
  THEN [sent |-> TRUE, statusCode |-> SqlStatus(SqlErrorCode(e)), success |-> FALSE,
        error |-> SqlError(SqlErrorCode(e)), code |-> Absent,
        message |-> SqlMessage(SqlErrorCode(e)), details |-> Absent]
  ELSE IF e.class = "TypeOrmError"
  THEN [sent |-> TRUE, statusCode |-> INTERNAL_SERVER_ERROR, success |-> FALSE,
        error |-> e.class, code |-> e.code, message |-> e.message, details |-> e.details]
  ELSE [sent |-> TRUE, statusCode |-> BAD_REQUEST, success |-> FALSE,
        error |-> e.class, code |-> e.code, message |-> e.message, details |-> e.details]

\* ------------------------------------- how Nest picks the filter that answers
\* app.useGlobalFilters(dbFilter, globalFilter)
GlobalFilters == <<"DatabaseFilterException", "GlobalExceptionFilter">>

\* @Catch(QueryFailedError, TypeOrmError, DatabaseError) / @Catch()
CatchTypes(f) == IF f = "DatabaseFilterException" THEN DbClasses ELSE {}

\* the exception handler of a route holds the registered filters reversed
RECURSIVE Reverse(_)
Reverse(s) == IF s = <<>> THEN <<>> ELSE Append(Reverse(Tail(s)), Head(s))

\* ... and the first of them whose @Catch list is empty or names a class of the
\* exception answers; without one Nest's built-in handler does
RECURSIVE SelectFilter(_, _)
SelectFilter(filters, e) ==
  IF filters = <<>> THEN "BaseExceptionFilter"
  ELSE IF CatchTypes(Head(filters)) = {} \/ e.class \in CatchTypes(Head(filters))
       THEN Head(filters)
       ELSE SelectFilter(Tail(filters), e)

\* ------------------------------------------------------------------ start-up
\* the state of the other components while the CRUD services are exercised
FilterIdle ==
  /\ nodeEnv = "development"
  /\ zodEnv = Undefined
  /\ diEnv = Undefined
  /\ boot = "start"
  /\ isProduction = FALSE
  /\ resp = NoResp
  /\ logged = NoLog
  /\ inbound = NoRequest

BootIdle ==
  /\ rawEnv = DefaultEnv
  /\ handled = NoHandled
  /\ dbResp = NoDbResp

\* the process starts: nothing is loaded yet, the environment map is whatever
\* the deployment provides
FilterBoot ==
  /\ nodeEnv = Undefined
  /\ zodEnv = Undefined
  /\ diEnv = Undefined
  /\ boot = "import"
  /\ isProduction = FALSE
  /\ resp = NoResp
  /\ logged = NoLog
  /\ inbound = NoRequest
  /\ rawEnv \in RawEnvs
  /\ handled = NoHandled
  /\ dbResp = NoDbResp
  /\ cache = NoCache
  /\ store = NoConfig
  /\ getRes = NoGet

\* zod-config.singleton.ts is evaluated on import, before bootstrap() runs:
\* validateEnv(process.env), then new ConfigService(parseEnv) and
\* new ZodService(configService); the constructor assigns no env
LoadConfig ==
  /\ boot = "import"
  /\ LET parseEnv == ValidateEnv(rawEnv)
     IN IF parseEnv.success
        THEN /\ boot' = "start"
             /\ nodeEnv' = parseEnv.data.NODE_ENV.text
             /\ store' = ConfigOf(parseEnv.data)
        ELSE /\ boot' = "exited"
             /\ UNCHANGED <<nodeEnv, store>>
  /\ UNCHANGED <<zodEnv, diEnv, isProduction, resp, bootVars, cache, getRes, pwVars, reqVars, joinVars>>
  /\ UNCHANGED crudVars

\* NestFactory.create(AppModule): the container instantiates the ZodService
\* provider of ZodModule and runs its onModuleInit: this.env = getRaw('NODE_ENV'),
\* which throws when the value is missing; DatabaseModule.onModuleInit then reads
\* this.config.currentEnv, a get('NODE_ENV') on that instance
CreateApp ==
  /\ boot = "start"
  /\ IF Missing(store["NODE_ENV"])
     THEN /\ boot' = "crashed"
          /\ UNCHANGED <<diEnv, cache>>
     ELSE /\ diEnv' = store["NODE_ENV"].text
          /\ cache' = ZodGet("di", "NODE_ENV").cache
          /\ boot' = "created"
  /\ UNCHANGED <<nodeEnv, zodEnv, isProduction, resp>>
  /\ UNCHANGED <<crudVars, bootVars, store, getRes, pwVars, reqVars, joinVars>>

\* bootstrap: useGlobalPipes(... zod.get('NODE_ENV') ...); new DatabaseFilterException();
\* new GlobalExceptionFilter(), whose field initialiser reads zod.isProd on the
\* singleton; app.useGlobalFilters(dbFilter, globalFilter)
UseGlobalFilters ==
  /\ boot = "created"
  /\ LET g == ZodGet("zod", "NODE_ENV")
     IN IF g.res.threw
        THEN /\ boot' = "crashed"
             /\ UNCHANGED <<isProduction, cache>>
        ELSE /\ cache' = g.cache
             /\ isProduction' = IsProd(zodEnv)
             /\ boot' = "filters"
  /\ UNCHANGED <<nodeEnv, zodEnv, diEnv, resp, bootVars, store, getRes, pwVars, reqVars, joinVars>>
  /\ UNCHANGED crudVars

\* const applicationPort = zod.get('APP_PORT'); await app.listen(applicationPort ?? 3000)
Listen ==
  /\ boot = "filters"
  /\ LET g == ZodGet("zod", "APP_PORT")
     IN IF g.res.threw
        THEN /\ boot' = "crashed"
             /\ UNCHANGED cache
        ELSE /\ cache' = g.cache
             /\ boot' = "listening"
  /\ UNCHANGED <<nodeEnv, zodEnv, diEnv, isProduction, resp, bootVars, store, getRes, pwVars, reqVars, joinVars>>
  /\ UNCHANGED crudVars

\* response.status(responseBody.statusCode).json(responseBody)
Send(responseBody) ==
  [responseBody EXCEPT !.sent = TRUE, !.httpStatus = responseBody.statusCode]

\* GlobalExceptionFilter.catch
Catch(e, request, uuid, now) ==
  /\ boot = "listening"
  /\ LET requestId == GetRequestId(request, uuid)
     IN /\ logged' = LogError(e, request, requestId, isProduction)
        /\ resp' = Send(PrepareResponse(e, request, requestId, isProduction, now))
  /\ inbound' = request
  /\ handled' = HandledBy("GlobalExceptionFilter", e)
  /\ UNCHANGED <<nodeEnv, zodEnv, diEnv, boot, isProduction, rawEnv, dbResp>>
  /\ UNCHANGED <<crudVars, zodVars, pwVars, joinVars>>

\* DatabaseFilterException.catch
DbCatch(e) ==
  /\ boot \in {"start", "created", "filters", "listening"}
  /\ e.class \in DbClasses
  /\ dbResp' = DbBody(e)
  /\ handled' = HandledBy("DatabaseFilterException", e)
  /\ UNCHANGED <<filterVars, rawEnv>>
  /\ UNCHANGED <<crudVars, zodVars, pwVars, reqVars, joinVars>>

\* an exception leaves a route handler: Nest hands it to the filter it selects
\* among the global filters (an exception no filter takes gets Nest's own answer)
HandleException(e, request, uuid, now) ==
  /\ boot = "listening"
  /\ LET f == SelectFilter(Reverse(GlobalFilters), e)
     IN IF f = "GlobalExceptionFilter" THEN Catch(e, request, uuid, now)
        ELSE IF f = "DatabaseFilterException" THEN DbCatch(e)
        ELSE /\ handled' = HandledBy(f, e)
             /\ UNCHANGED <<filterVars, rawEnv, dbResp>>
             /\ UNCHANGED <<crudVars, zodVars, pwVars, reqVars, joinVars>>

FilterNext ==
  \/ LoadConfig
  \/ CreateApp
  \/ UseGlobalFilters
  \/ Listen
  \/ \E e \in Exceptions \cup DbExceptions, r \in Requests, u \in Uuids,
          now \in Timestamps :
       HandleException(e, r, u, now)

\* the filter class on its own, as whatever binds it would call it
DbFilterNext ==
  \/ LoadConfig
  \/ \E e \in DbExceptions : DbCatch(e)

\* ----------------------------------------------------- reading configuration
\* the values ConfigService can come to return for a key later on
StoreVals == {Undef, Null, Str(""), Str("v1")}

GetKeys == {"NODE_ENV", "APP_PREFIX"}

\* the program is past configuration loading; the container's instance exists
\* once the application is created
Alive(inst) ==
  IF inst = "zod" THEN boot \in {"start", "created", "filters", "listening"}
  ELSE boot \in {"created", "filters", "listening"}

\* ZodService.get(key) on an instance
Get(inst, key) ==
  /\ Alive(inst)
  /\ getRes = NoGet
  /\ getRes' = ZodGet(inst, key).res
  /\ cache' = ZodGet(inst, key).cache
  /\ UNCHANGED <<filterVars, bootVars, store, pwVars, reqVars, joinVars>>
  /\ UNCHANGED crudVars

\* isProd / isDev read on an instance
Flags == {"isProd", "isDev"}

Flag(b) == [type |-> "boolean", text |-> "", num |-> IF b THEN 1 ELSE 0]

ReadFlag(inst, flag) ==
  /\ Alive(inst)
  /\ getRes = NoGet
  /\ getRes' = [NoGet EXCEPT !.inst = inst, !.via = flag,
                             !.value = Flag(IF flag = "isProd" THEN IsProd(InstEnv(inst))
                                            ELSE IsDev(InstEnv(inst)))]
  /\ UNCHANGED <<filterVars, bootVars, cache, store, pwVars, reqVars, joinVars>>
  /\ UNCHANGED crudVars

\* onModuleInit of an instance: this.env = this.getRaw('NODE_ENV')
OnModuleInit(inst) ==
  /\ Alive(inst)
  /\ getRes = NoGet
  /\ IF Missing(store["NODE_ENV"])
     THEN /\ getRes' = [EnvVariablesError(inst, "NODE_ENV", "unknown")
                         EXCEPT !.via = "onModuleInit"]
          /\ UNCHANGED <<zodEnv, diEnv>>
     ELSE /\ getRes' = [NoGet EXCEPT !.inst = inst, !.via = "onModuleInit"]
          /\ zodEnv' = IF inst = "zod" THEN store["NODE_ENV"].text ELSE zodEnv
          /\ diEnv' = IF inst = "di" THEN store["NODE_ENV"].text ELSE diEnv
  /\ UNCHANGED <<nodeEnv, boot, isProduction, resp>>
  /\ UNCHANGED <<bootVars, cache, store, pwVars, reqVars, joinVars>>
  /\ UNCHANGED crudVars

\* the accessors built on get
Accessors == {"ApplicationPort", "databaseURL", "frontendURL", "apiPrefix", "currentEnv"}

\* the key an accessor hands to get
AccessorKey(inst, a) ==
  IF a = "ApplicationPort" THEN "APP_PORT"
  ELSE IF a = "databaseURL" THEN "DATABASE_URL"
  ELSE IF a = "frontendURL"
       THEN IF InstEnv(inst) = "development" THEN "FRONTEND_DEV_URL"
            ELSE "FRONTEND_PROD_URL"
  ELSE IF a = "apiPrefix" THEN "APP_PREFIX"
  ELSE "NODE_ENV"

Access(inst, a) ==
  /\ Alive(inst)
  /\ getRes = NoGet
  /\ LET g == ZodGet(inst, AccessorKey(inst, a))
     IN /\ getRes' = [g.res EXCEPT !.via = a]
        /\ cache' = g.cache
  /\ UNCHANGED <<filterVars, bootVars, store, pwVars, reqVars, joinVars>>
  /\ UNCHANGED crudVars

\* the caller has the value, or the error
GetReturn ==
  /\ getRes # NoGet
  /\ getRes' = NoGet
  /\ UNCHANGED <<filterVars, bootVars, cache, store, pwVars, reqVars, joinVars>>
  /\ UNCHANGED crudVars

\* the underlying configuration changes: ConfigService.get(key) returns v from now on
SetEnv(key, v) ==
  /\ Alive("zod")
  /\ getRes = NoGet
  /\ store[key] # v
  /\ store' = [store EXCEPT ![key] = v]
  /\ UNCHANGED <<filterVars, bootVars, cache, getRes, pwVars, reqVars, joinVars>>
  /\ UNCHANGED crudVars

\* the configuration has been loaded from a valid environment map
ZodBoot ==
  /\ rawEnv \in {r \in RawEnvs : SchemaOk(r)}
  /\ nodeEnv = ValidateEnv(rawEnv).data.NODE_ENV.text
  /\ store = ConfigOf(ValidateEnv(rawEnv).data)
  /\ zodEnv = Undefined
  /\ diEnv = Undefined
  /\ boot = "start"
  /\ isProduction = FALSE
  /\ resp = NoResp
  /\ logged = NoLog
  /\ inbound = NoRequest
  /\ handled = NoHandled
  /\ dbResp = NoDbResp
  /\ cache = NoCache
  /\ getRes = NoGet

ZodNext ==
  \/ CreateApp
  \/ \E i \in Instances, k \in GetKeys : Get(i, k)
  \/ GetReturn
  \/ \E k \in GetKeys, v \in StoreVals : SetEnv(k, v)

\* every member of ZodService on both instances, on a loaded configuration
AccessBoot ==
  /\ ZodBoot
  /\ rawEnv.NODE_ENV # Absent
  /\ rawEnv.APP_PORT = "3010"

AccessNext ==
  \/ CreateApp
  \/ \E i \in Instances, k \in GetKeys : Get(i, k)
  \/ \E i \in Instances, f \in Flags : ReadFlag(i, f)
  \/ \E i \in Instances : OnModuleInit(i)
  \/ \E i \in Instances, a \in Accessors : Access(i, a)
  \/ GetReturn

\* the state bootstrap leaves behind when the environment is valid: the
\* application listens, the singleton has cached NODE_ENV and APP_PORT
Running ==
  /\ rawEnv \in {r \in RawEnvs : SchemaOk(r) /\ r.NODE_ENV # Absent /\ r.APP_PREFIX # ""}
  /\ nodeEnv = ValidateEnv(rawEnv).data.NODE_ENV.text
  /\ store = ConfigOf(ValidateEnv(rawEnv).data)
  /\ zodEnv = Undefined
  /\ diEnv = nodeEnv
  /\ boot = "listening"
  /\ isProduction = FALSE
  /\ resp = NoResp
  /\ logged = NoLog
  /\ inbound = NoRequest
  /\ handled = NoHandled
  /\ dbResp = NoDbResp
  /\ cache = [NoCache EXCEPT !["zod"]["NODE_ENV"] = store["NODE_ENV"],
                             !["zod"]["APP_PORT"] = store["APP_PORT"],
                             !["di"]["NODE_ENV"] = store["NODE_ENV"]]
  /\ getRes = NoGet

\* ------------------------------------------------------- PasswordService
UNAUTHORIZED == 401

\* a password: a string or a Buffer; its bytes are the first 72 (head) and the
\* rest (tail, empty unless the head is a full block of 72 bytes)
Passwords ==
  {[kind |-> k, head |-> h, tail |-> t] :
     k \in {"string", "buffer"}, h \in {"admin", "secret"}, t \in {""}}
  \cup {[kind |-> k, head |-> "block72", tail |-> t] :
          k \in {"string", "buffer"}, t \in {"", "x", "y"}}

NoPassword == [kind |-> "none", head |-> "", tail |-> ""]

\* String(password): a Buffer is decoded to the text of its bytes
StringOf(p) == [head |-> p.head, tail |-> p.tail]

\* bcryptjs keys the cipher with at most the first 72 bytes of the text
BcryptKey(s) == s.head

Salts == {"salt1", "salt2"}

InvalidHash == [salt |-> "", key |-> ""]

\* the strings confirmPassword can be given as encryptedPassword
Hashes == [salt : Salts, key : {"admin", "secret", "block72"}] \cup {InvalidHash}

\* bcrypt.hash(String(password), salt), salt from bcrypt.genSalt(saltRound)
HashPassword(p, salt) == [salt |-> salt, key |-> BcryptKey(StringOf(p))]

\* bcrypt.compare(String(plainPassword), encryptedPassword): false for a
\* string that is no bcrypt hash
ComparePassword(p, h) == h # InvalidHash /\ BcryptKey(StringOf(p)) = h.key

\* how the hashing strategy ends: normally, by throwing an Error, or by
\* throwing a value that is no Error
Fails == {"none", "Error", "other"}

NoStored == [p |-> NoPassword, hash |-> InvalidHash]

NoPwRes == [op |-> "none", fail |-> "none", kind |-> "none", status |-> 0,
            message |-> "", value |-> FALSE, hash |-> InvalidHash, q |-> NoPassword]

\* protectPassword: the logMessage, chosen by this.zodService.isDev on the singleton
ProtectLogMessage ==
  IF IsDev(zodEnv) THEN "[PasswordService] : Failed to Hash the password "
  ELSE "An expected error occurred try again"

\* handleError: throw new HttpException({ ..., detail: { message: zod.currentEnv ===
\* 'development' ? { errorMessage, stack, causes } : logMessage } }, 500);
\* zod.currentEnv is zod.get('NODE_ENV'), which throws when the value is missing
HandleError(logMessage) ==
  LET g == ZodGet("zod", "NODE_ENV")
  IN IF g.res.threw
     THEN [kind |-> "EnvVariablesError", status |-> 0, message |-> ""]
     ELSE [kind |-> "HttpException", status |-> INTERNAL_SERVER_ERROR,
           message |-> IF g.res.value = Str("development") THEN "errorMessage+stack+causes"
                       ELSE logMessage]

\* the HttpException thrown for a failure that is no Error
OtherFailureMut(method, logMessage) ==
  [kind |-> "HttpException", status |-> INTERNAL_SERVER_ERROR, message |-> logMessage]

OtherFailure(method, logMessage) ==
  [kind |-> "HttpException",
   status |-> IF method = "confirm" THEN UNAUTHORIZED ELSE INTERNAL_SERVER_ERROR,
   message |-> logMessage]

\* the catch block of protectPassword / confirmPassword
Wrapped(method, fail, logMessage) ==
  IF fail = "Error" THEN HandleError(logMessage) ELSE OtherFailure(method, logMessage)

PwIdle ==
  /\ stored = NoStored
  /\ pwRes = NoPwRes

\* protectPassword(password)
ProtectPassword(p, salt, fail) ==
  /\ boot = "listening"
  /\ IF fail = "none"
     THEN /\ stored' = [p |-> p, hash |-> HashPassword(p, salt)]
          /\ pwRes' = [NoPwRes EXCEPT !.op = "protect", !.kind = "value",
                                      !.hash = HashPassword(p, salt), !.q = p]
          /\ UNCHANGED cache
     ELSE /\ LET w == Wrapped("protect", fail, ProtectLogMessage)
             IN pwRes' = [NoPwRes EXCEPT !.op = "protect", !.fail = fail, !.kind = w.kind,
                                         !.status = w.status, !.message = w.message,
                                         !.q = p]
          /\ cache' = IF fail = "Error" THEN ZodGet("zod", "NODE_ENV").cache ELSE cache
          /\ UNCHANGED stored
  /\ UNCHANGED <<filterVars, bootVars, store, getRes, reqVars, joinVars>>
  /\ UNCHANGED crudVars

\* confirmPassword(providedPassword, encryptedPassword)
ConfirmPassword(q, h, fail) ==
  /\ boot = "listening"
  /\ IF fail = "none"
     THEN /\ pwRes' = [NoPwRes EXCEPT !.op = "confirm", !.kind = "value",
                                      !.value = ComparePassword(q, h), !.hash = h, !.q = q]
          /\ UNCHANGED cache
     ELSE /\ LET w == Wrapped("confirm", fail, "Wrong credentials")
             IN pwRes' = [NoPwRes EXCEPT !.op = "confirm", !.fail = fail, !.kind = w.kind,
                                         !.status = w.status, !.message = w.message,
                                         !.hash = h, !.q = q]
          /\ cache' = IF fail = "Error" THEN ZodGet("zod", "NODE_ENV").cache ELSE cache
  /\ UNCHANGED <<filterVars, bootVars, store, getRes, stored, reqVars, joinVars>>
  /\ UNCHANGED crudVars

PasswordNext ==
  \/ \E p \in Passwords, s \in Salts, f \in Fails : ProtectPassword(p, s, f)
  \/ \E q \in Passwords, h \in Hashes, f \in Fails : ConfirmPassword(q, h, f)

\* ------------------------------------------------------------- UserService
\* the object { email } that registerUser hands to isThisEmailAlreadyInDb becomes,
\* as a whole, the where value of the column email; the postgres driver sends an
\* object parameter as its JSON text
JsonOf(arg) == "{email:" \o arg.email \o "}"

\* EmailSchema.safeParse(email).success
EmailSchemaOk(arg) == arg.email # Absent

\* repository.exists({ where: { email } }), email being the argument object
EmailExists(arg) ==
  \E i \in Ids : db[i] # NoRow /\ ~db[i].deleteAt /\ db[i].email = JsonOf(arg)

\* the passwords a CreateUserDto carries
PasswordTexts == {"admin", "secret"}

\* a string given where string | Buffer is expected
AsPassword(text) == [kind |-> "string", head |-> text, tail |-> ""]

RegisterData ==
  {[name |-> d.name, email |-> d.email, password |-> p] :
     d \in CreateData \cup {[name |-> v, email |-> Absent] : v \in Vals},
     p \in PasswordTexts}

\* the argument of createEntity: { ...customer, password: providedPassword }
EntityData(customer, securePassword) ==
  [name |-> customer.name, email |-> customer.email,
   password |-> StringOf(AsPassword(customer.password))]

\* registerUser(customer): the email check, protectPassword(providedEmail), then
\* createEntity({ ...customer, password: providedPassword }) in a transaction
\* of its own
RegisterUser(c, customer, salt) ==
  /\ boot = "listening"
  /\ Free(c)
  /\ nextId + PendingCreates <= MaxId
  /\ IF ~EmailSchemaOk([email |-> customer.email]) \/ EmailExists([email |-> customer.email])
     THEN /\ op' = [op EXCEPT ![c] = [kind |-> "register", id |-> 0, data |-> NoData,
                                      customer |-> customer]]
          /\ res' = [res EXCEPT ![c] = Failure(BAD_REQUEST)]
          /\ pc' = [pc EXCEPT ![c] = "done"]
          /\ UNCHANGED <<shape, txState, txEvents, stored>>
     ELSE /\ LET providedEmail == AsPassword(customer.email)
                 securePassword == HashPassword(providedEmail, salt)
             IN /\ stored' = [p |-> providedEmail, hash |-> securePassword]
                /\ op' = [op EXCEPT ![c] = [kind |-> "register", id |-> 0,
                                            data |-> EntityData(customer, securePassword),
                                            customer |-> customer]]
          /\ shape' = [shape EXCEPT ![c] = "owned"]
          /\ txState' = [txState EXCEPT ![c] = "Pending"]
          /\ txEvents' = [txEvents EXCEPT ![c] = <<"service.begin">>]
          /\ pc' = [pc EXCEPT ![c] = "create"]
          /\ UNCHANGED res
  /\ lastRead = NoRead /\ lastRead' = NoRead
  /\ UNCHANGED <<db, nextId, writes, shareLock, pre, log, removed>>
  /\ UNCHANGED <<filterVars, bootVars, zodVars, pwRes, reqVars, joinVars>>

UserNext ==
  \/ \E c \in Clients, d \in RegisterData, s \in Salts : RegisterUser(c, d, s)
  \/ \E c \in Clients : CreateStep(c)
  \/ \E c \in Clients : ServiceEnd(c)
  \/ \E c \in Clients : Reset(c)

\* registerUser called by concurrent requests
UserConcNext ==
  \/ \E c \in Calls, d \in RegisterData, s \in Salts : RegisterUser(c, d, s)
  \/ \E c \in Calls : CreateStep(c)
  \/ \E c \in Calls : ServiceEnd(c)
  \/ \E c \in Calls : Reset(c)

\* ---------------------------------------------------------- specifications
Init == CrudInit /\ FilterIdle /\ BootIdle /\ ZodIdle /\ PwIdle

Spec == Init /\ [][Next]_vars

InitFilter == CrudInit /\ FilterBoot /\ PwIdle

SpecFilter == InitFilter /\ [][FilterNext]_vars

SpecDbFilter == InitFilter /\ [][DbFilterNext]_vars

InitZod == CrudInit /\ ZodBoot /\ PwIdle

SpecZod == InitZod /\ [][ZodNext]_vars

InitAccess == CrudInit /\ AccessBoot /\ PwIdle

SpecAccess == InitAccess /\ [][AccessNext]_vars

InitRunning == CrudInit /\ Running /\ PwIdle

SpecPassword == InitRunning /\ [][PasswordNext]_vars

SpecUser == InitRunning /\ [][UserNext]_vars

SpecUserConc == InitRunning /\ [][UserConcNext]_vars


\* concurrent clients: every slot runs calls, interleaved statement by statement
NextConc ==
  \/ \E c \in Calls, o \in OpArgs : StartOwned(c, o)
  \/ \E c \in Calls : CreateStep(c)
  \/ \E c \in Calls : CheckStep(c)
  \/ \E c \in Calls : UpdateStep(c)
  \/ \E c \in Calls : DeadlockAbort(c)
  \/ \E c \in Calls : RereadStep(c)
  \/ \E c \in Calls : DeleteStep(c)
  \/ \E c \in Calls : ServiceEnd(c)
  \/ \E c \in Calls : Reset(c)

SpecConc == Init /\ [][NextConc]_vars

\* the numbers a caller can put into IPagination
PageArgs == 0..MaxPage
LimitArgs == -1..MaxLimit

\* one client that writes through owned calls and lists with any IPagination
NextPaging ==
  \/ \E c \in Clients, o \in OpArgs : StartOwned(c, o)
  \/ \E c \in Clients : CreateStep(c)
  \/ \E c \in Clients : CheckStep(c)
  \/ \E c \in Clients : UpdateStep(c)
  \/ \E c \in Clients : RereadStep(c)
  \/ \E c \in Clients : DeleteStep(c)
  \/ \E c \in Clients : ServiceEnd(c)
  \/ \E c \in Clients : Reset(c)
  \/ \E i \in Ids : SoftDelete(i)
  \/ Quiet /\ \E p \in PageArgs, l \in LimitArgs, f \in Filters : ReadAll(p, l, f, NoTx)
  \/ ReadReturn

SpecPaging == Init /\ [][NextPaging]_vars

\* one client whose transaction callback runs service calls side by side on the
\* one manager
\* the call started next to the running one: deleteEntity(id, tx)
JoinArgs == {o \in OpArgs : o.kind = "delete"}

NextJoint ==
  \/ \E c \in Clients, o \in OpArgs : StartOwned(c, o)
  \/ \E c \in Clients : CallerBegin(c)
  \/ \E c \in Clients, o \in OpArgs : CallerInvoke(c, o)
  \/ \E d \in Calls, c \in Clients, o \in JoinArgs : JoinInvoke(d, c, o)
  \/ \E c \in Calls : CreateStep(c)
  \/ \E c \in Calls : CheckStep(c)
  \/ \E c \in Calls : UpdateStep(c)
  \/ \E c \in Calls : RereadStep(c)
  \/ \E c \in Calls : DeleteStep(c)
  \/ \E c \in Calls : ServiceEnd(c)
  \/ \E c \in Clients : CallerEnd(c)
  \/ \E c \in Calls : Reset(c)

SpecJoint == Init /\ [][NextJoint]_vars

TypeOK ==
  /\ nextId \in 1..(MaxId + 1)
  /\ \A c \in Calls : pc[c] \in {"idle", "ready", "create", "check", "update", "reread",
                                 "delete", "returned", "threw", "failed", "done"}

\* =================================================================== claims
IsGone(row) == row = NoRow \/ row.deleteAt

IsSoftDeleted(row) == row # NoRow /\ row.deleteAt

AllUntouched == [i \in Ids |-> Untouched]

\* C1: a successful update(id, p) returns a non-absent entity in which every field
\* named in p has p's value and every other field keeps the value it had before
\* the call, in the owned and in the caller-supplied transaction shape.
C1_UpdateReturnsMerged ==
  \A c \in Calls :
    (op[c].kind = "update" /\ res[c].kind = "entity") =>
      /\ res[c].entity # NoRow
      /\ res[c].entity.id = op[c].id
      /\ res[c].entity.name = IF op[c].data.name # Absent THEN op[c].data.name
                              ELSE pre[c].name
      /\ res[c].entity.email = IF op[c].data.email # Absent THEN op[c].data.email
                               ELSE pre[c].email

\* C2: a create/update/delete call made without a manager opens exactly one
\* transaction; it ends Committed exactly when the call returns and RolledBack
\* exactly when it fails, the rollback is complete when the error reaches the
\* caller, and the rollback leaves nothing of the call in the store.
C2_Inv ==
  \A c \in Calls :
    shape[c] = "owned" =>
      /\ pc[c] # "done" => (txState[c] = "Pending" /\ txEvents[c] = <<"service.begin">>)
      /\ pc[c] = "done" =>
           \/ /\ res[c].kind \in {"entity", "deleted"}
              /\ txState[c] = "Committed"
              /\ txEvents[c] = <<"service.begin", "service.commit">>
           \/ /\ res[c].kind = "error"
              /\ txState[c] = "RolledBack"
              /\ txEvents[c] = <<"service.begin", "service.rollback">>
      /\ txState[c] # "Pending" => writes[c] = AllUntouched

C2_Step ==
  \A c \in Calls :
    (shape[c] = "owned" /\ pc[c] = "threw" /\ pc'[c] # "threw") =>
      (db' = db /\ txState'[c] = "RolledBack" /\ writes'[c] = AllUntouched)

C2_OwnedTransaction == []C2_Inv /\ [][C2_Step]_crudVars

C2_Witness ==
  \E c \in Calls :
    /\ shape[c] = "owned" /\ pc[c] = "done" /\ op[c].kind = "update"
    /\ res[c].kind = "error" /\ txState[c] = "RolledBack"

\* C3: with a manager supplied the service never begins, commits or rolls back a
\* transaction; for create(A, tx) followed by update(B, p, tx) in one caller
\* transaction either both effects are in the store (the caller committed) or
\* neither is (the update failed and the caller's transaction rolled back).
CarriesPartial(row, data) ==
  /\ row # NoRow
  /\ data.name # Absent => row.name = data.name
  /\ data.email # Absent => row.email = data.email

C3_CallerTransaction ==
  \A c \in Calls :
    shape[c] = "caller" =>
      /\ \A k \in 1..Len(txEvents[c]) :
           txEvents[c][k] \in {"caller.begin", "caller.commit", "caller.rollback"}
      /\ (/\ Len(log[c]) = 2
          /\ log[c][1].kind = "create" /\ log[c][1].id # 0
          /\ log[c][2].kind = "update") =>
           LET a == log[c][1].id
               b == log[c][2].id
           IN /\ pc[c] # "done" => db[a] = NoRow
              /\ pc[c] = "done" =>
                   \/ /\ res[c].kind = "entity"
                      /\ txState[c] = "Committed"
                      /\ db[a] # NoRow
                      /\ CarriesPartial(db[b], op[c].data)
                   \/ /\ res[c].kind = "error"
                      /\ txState[c] = "RolledBack"
                      /\ db[a] = NoRow
                      /\ (b # a /\ pre[c] # NoRow) =>
                           (db[b].name = pre[c].name /\ db[b].email = pre[c].email)

C3_Witness ==
  \E c \in Calls :
    /\ shape[c] = "caller" /\ pc[c] = "done" /\ Len(log[c]) = 2
    /\ log[c][1].kind = "create" /\ log[c][1].id # 0 /\ log[c][2].kind = "update"
    /\ res[c].kind = "error" /\ txState[c] = "RolledBack"
    /\ db[log[c][1].id] = NoRow

\* C4: update(id, p) on an id that is absent or soft-deleted fails with NotFound
\* (404) and changes no row of the store; in the owned shape the transaction
\* ends RolledBack.
C4_Step ==
  \A c \in Calls :
    op[c].kind = "update" =>
      /\ (pc[c] = "check" /\ pc'[c] # "check" /\ IsGone(Visible(c, op[c].id))) =>
           /\ res'[c] = Failure(NOT_FOUND)
           /\ pc'[c] = "threw"
           /\ db' = db /\ writes' = writes
      /\ (pc[c] = "threw" /\ pc'[c] # "threw" /\ res[c] = Failure(NOT_FOUND)) =>
           /\ db' = db
           /\ res'[c] = res[c]
           /\ shape[c] = "owned" => (txState'[c] = "RolledBack" /\ pc'[c] = "done")

C4_UpdateMissingNotFound == [][C4_Step]_crudVars

C4_Witness ==
  \E c \in Calls :
    /\ shape[c] = "owned" /\ pc[c] = "done" /\ op[c].kind = "update"
    /\ res[c] = Failure(NOT_FOUND) /\ txState[c] = "RolledBack"
    /\ db[op[c].id] # NoRow /\ db[op[c].id].deleteAt

\* C5: delete(id) on an existing id succeeds with success = true; once a delete
\* of id has taken effect, any later delete(id) affects no row, fails with
\* Conflict (409) and leaves the store unchanged.
C5_Step ==
  \A c \in Calls :
    (pc[c] = "delete" /\ pc'[c] # "delete") =>
      /\ Visible(c, op[c].id) # NoRow =>
           /\ res'[c].kind = "deleted" /\ res'[c].success
           /\ writes'[c][op[c].id] = NoRow
      /\ (op[c].id \in removed \/ writes[c][op[c].id] = NoRow) =>
           /\ res'[c] = Failure(CONFLICT)
           /\ pc'[c] = "threw"
           /\ db' = db /\ writes' = writes

C5_Inv == \A i \in removed : db[i] = NoRow

C6_DeleteMissingNotFound ==
  \A c \in Calls :
    (op[c].kind = "delete" /\ pc[c] \in {"threw", "failed", "done"} /\ pre[c] = NoRow) =>
      res[c] = Failure(NOT_FOUND)

\* C7: findById on an id that is absent or soft-deleted returns null, with or
\* without a manager, and never throws; neither findById nor
\* findByIdOrAlternateKey returns a soft-deleted row.
C7_FindByIdAbsent ==
  /\ lastRead.kind = "byId" =>
       /\ ~lastRead.threw
       /\ IsGone(Visible(lastRead.mgr, lastRead.id)) => lastRead.row = NoRow
       /\ lastRead.row # NoRow => ~lastRead.row.deleteAt
  /\ lastRead.kind = "byKey" => (lastRead.row = NoRow \/ ~lastRead.row.deleteAt)

C7_Witness ==
  /\ lastRead.kind = "byId" /\ lastRead.mgr # NoTx
  /\ db[lastRead.id] # NoRow /\ db[lastRead.id].deleteAt
  /\ lastRead.row = NoRow

\* C8: after a successful create returned e, findById(e.id), with no update or
\* delete (soft delete included) in between, returns an entity equal to e on the
\* caller-supplied fields, which are the ones the caller gave; e.id is populated.
C8_CreateThenFind ==
  \A c \in Calls :
    (/\ op[c].kind = "create" /\ res[c].kind = "entity"
     /\ lastRead.kind = "byId" /\ lastRead.id = res[c].entity.id
     /\ (lastRead.mgr = c \/ txState[c] = "Committed")
     /\ ~IsSoftDeleted(Visible(lastRead.mgr, lastRead.id))) =>
      /\ res[c].entity.id \in Ids
      /\ res[c].entity.name = op[c].data.name
      /\ res[c].entity.email = op[c].data.email
      /\ lastRead.row # NoRow
      /\ lastRead.row.id = res[c].entity.id
      /\ lastRead.row.name = res[c].entity.name
      /\ lastRead.row.email = res[c].entity.email

C8_Witness ==
  \E c \in Calls :
    /\ shape[c] = "owned" /\ pc[c] = "done" /\ op[c].kind = "create"
    /\ res[c].kind = "entity" /\ txState[c] = "Committed"
    /\ lastRead.kind = "byId" /\ lastRead.mgr = NoTx
    /\ lastRead.id = res[c].entity.id /\ lastRead.row = res[c].entity

\* C9: for page >= 1 and limit > 0 the result of findAll holds no soft-deleted
\* row, total >= data.length and data.length <= limit.
C9_FindAllBounds ==
  lastRead.kind = "all" =>
    /\ \A k \in 1..Len(lastRead.data) : ~lastRead.data[k].deleteAt
    /\ lastRead.total >= Len(lastRead.data)
    /\ Len(lastRead.data) <= lastRead.limit

C9_Witness ==
  /\ lastRead.kind = "all" /\ lastRead.mgr = NoTx /\ lastRead.filter = NoData
  /\ lastRead.page = 1 /\ lastRead.limit = 1
  /\ Len(lastRead.data) = 1 /\ lastRead.total = 1
  /\ \E i \in Ids : db[i] # NoRow /\ db[i].deleteAt

\* C10: when NODE_ENV is 'production', every response body of the
\* GlobalExceptionFilter constructed in bootstrap carries the fixed generic
\* message and no details, whatever the exception.
C10_ProductionGeneric ==
  (nodeEnv = "production" /\ resp.sent) =>
    (resp.message = GenericMessage /\ ~resp.details.present)

\* C11: wherever the program reads them, isProd is true exactly when the validated
\* NODE_ENV is 'production' and isDev exactly when it is 'development': on the
\* singleton `zod` when GlobalExceptionFilter is constructed (zod.isProd) and while
\* requests are served (zod.isDev in PasswordService and UserService), and on the
\* container's instance from its creation on.
C11_EnvFlags ==
  /\ boot \in {"filters", "listening"} => (isProduction <=> nodeEnv = "production")
  /\ boot = "listening" =>
       /\ IsProd(zodEnv) <=> nodeEnv = "production"
       /\ IsDev(zodEnv) <=> nodeEnv = "development"
  /\ boot \in {"created", "filters", "listening"} =>
       /\ IsProd(diEnv) <=> nodeEnv = "production"
       /\ IsDev(diEnv) <=> nodeEnv = "development"

\* C12: with the filters registered as in bootstrap, a QueryFailedError, TypeOrmError
\* or DatabaseError is answered by DatabaseFilterException, GlobalExceptionFilter
\* answers only what no more specific filter matches, and one of the two filters
\* answers each exception.
C12_SpecificFilterFirst ==
  handled.by # "none" =>
    /\ handled.by \in {"DatabaseFilterException", "GlobalExceptionFilter"}
    /\ handled.class \in DbClasses => handled.by = "DatabaseFilterException"
    /\ handled.by = "GlobalExceptionFilter" => handled.class \notin DbClasses

C14_DuplicateEmailRejected ==
  /\ \A i, j \in Ids :
       (i # j /\ db[i] # NoRow /\ db[j] # NoRow) => db[i].email # db[j].email
  /\ \A c \in Calls :
       (/\ op[c].kind = "register"
        /\ pc[c] = "done"
        /\ \E i \in Ids : /\ db[i] # NoRow
                           /\ db[i].email = op[c].data.email
                           /\ res[c].entity.id # i)
       => (res[c].kind = "error" /\ res[c].status \in {BAD_REQUEST, CONFLICT})

\* C15: once get(key) has returned a value on an instance, the cache entry is never
\* overwritten or removed, and every later get(key) on that instance returns that
\* value, whatever the underlying configuration returns by then.
C15_FirstWins ==
  [][\A i \in Instances, k \in ConfigKeys :
       cache[i][k] # Undef =>
         /\ cache'[i][k] = cache[i][k]
         /\ (getRes = NoGet /\ getRes' # NoGet /\ getRes'.inst = i /\ getRes'.key = k)
              => (~getRes'.threw /\ getRes'.value = cache[i][k])]_vars

C15_Witness ==
  /\ getRes # NoGet
  /\ ~getRes.threw
  /\ getRes.value = cache[getRes.inst][getRes.key]
  /\ store[getRes.key] # getRes.value

\* C16: get(key) for a key whose underlying value is undefined, null or '' fails with
\* an EnvVariablesError naming the key and the current environment (the validated
\* NODE_ENV), and adds no cache entry.
C16_MissingNamesKeyAndEnv ==
  (getRes # NoGet /\ getRes.threw) =>
    /\ getRes.variable = getRes.key
    /\ getRes.env = nodeEnv
    /\ cache[getRes.inst][getRes.key] = Undef

\* the environment map violates the schema: a required key is missing or a value
\* is not of the type the schema asks for
C17_Violates(raw) ==
  \/ raw.APP_PREFIX = Absent
  \/ raw.NODE_ENV \notin {Absent, "development", "production"}
  \/ raw.APP_PORT \in {"abc", "0"}

C18_NoDetailsInProduction ==
  (nodeEnv = "production" /\ dbResp.sent) => dbResp.details = Absent

\* C19: with h = protectPassword(p), confirmPassword(q, h) resolves true when q is
\* p and false when q differs from p.
C19_ConfirmTellsApart ==
  (/\ stored # NoStored
   /\ pwRes.op = "confirm"
   /\ pwRes.kind = "value"
   /\ pwRes.hash = stored.hash)
  => (pwRes.value <=> StringOf(pwRes.q) = StringOf(stored.p))

\* C20: a failure of the hashing strategy never ends in a normal return: it is an
\* HttpException, of status 401 for confirmPassword when the failure is no Error
\* and of status 500 in every other case.
C20_FailureIsHttpException ==
  pwRes.fail # "none" =>
    /\ pwRes.kind = "HttpException"
    /\ pwRes.status = IF pwRes.op = "confirm" /\ pwRes.fail = "other" THEN 401 ELSE 500

C20_Witness ==
  /\ pwRes.op = "confirm"
  /\ pwRes.fail = "other"
  /\ pwRes.kind = "HttpException"
  /\ pwRes.status = 401
\* C21: whatever the exception, GlobalExceptionFilter sends the HttpException's own
\* status when it is given an HttpException and 500 otherwise, and the body has
\* success = false, a statusCode equal to the status sent, and the fields error,
\* message, requestId, timestamp and path.
C21_UniformBody ==
  handled.by = "GlobalExceptionFilter" =>
    /\ resp.sent
    /\ resp.httpStatus = IF handled.class = "HttpException" THEN handled.status
                         ELSE 500
    /\ resp.success = FALSE
    /\ resp.statusCode = resp.httpStatus
    /\ resp.error # ""
    /\ resp.message # ""
    /\ resp.requestId # ""
    /\ resp.timestamp \in Timestamps
    /\ resp.path = inbound.url

\* an HttpException with status 404 has been answered
C21_Witness ==
  /\ handled.by = "GlobalExceptionFilter"
  /\ handled.class = "HttpException"
  /\ handled.status = NOT_FOUND
  /\ resp.httpStatus = NOT_FOUND

\* C22: the requestId of the catch-all filter's response is the inbound
\* x-request-id header when that header is a non-blank string and a freshly
\* generated identifier otherwise; the log entry written for the exception
\* carries the same requestId.
C22_RequestId ==
  handled.by = "GlobalExceptionFilter" =>
    /\ IF inbound.header.type = "string" /\ inbound.header.text \notin {"", " "}
       THEN resp.requestId = inbound.header.text
       ELSE resp.requestId \in Uuids
    /\ logged.written
    /\ logged.requestId = resp.requestId
    /\ logged.tag = resp.requestId

\* a request with a blank header got a generated identifier
C22_Witness ==
  /\ handled.by = "GlobalExceptionFilter"
  /\ inbound.header = [type |-> "string", text |-> " "]
  /\ resp.requestId \in Uuids
  /\ logged.requestId = resp.requestId
\* C23: when the row is gone at the UPDATE statement (affected-row count 0) the
\* update fails with 404 and reports no entity, and a concurrent delete(id) in
\* the same transaction never lets update(id, p) return an entity while the row
\* no longer exists in that transaction.
C23_Step ==
  \A c \in Calls :
    /\ (pc[c] = "update" /\ pc'[c] # "update" /\ op[c].data # NoData
          /\ Visible(Tx(c), op[c].id) = NoRow)
         => (pc'[c] = "threw" /\ res'[c] = Failure(404))
    /\ (pc[c] = "reread" /\ pc'[c] = "returned" /\ res'[c].entity # NoRow)
         => Visible(Tx(c), op[c].id) # NoRow

C23_UpdateNeverReturnsGone == [][C23_Step]_vars
\* C24: findAll(page, limit, filter) returns as data exactly the rows at positions
\* (page-1)*limit .. page*limit - 1 of the matching rows that are not soft-deleted,
\* newest first, as total the number of those rows, and page and limit as given.
C24_FindAllPage ==
  lastRead.kind = "all" =>
    LET M == {i \in Ids : /\ Visible(lastRead.mgr, i) # NoRow
                          /\ ~Visible(lastRead.mgr, i).deleteAt
                          /\ lastRead.filter.name # Absent =>
                               Visible(lastRead.mgr, i).name = lastRead.filter.name
                          /\ lastRead.filter.email # Absent =>
                               Visible(lastRead.mgr, i).email = lastRead.filter.email}
        position(i) == Cardinality({j \in M : Visible(lastRead.mgr, j).createdAt
                                                > Visible(lastRead.mgr, i).createdAt})
        first == (lastRead.request.page - 1) * lastRead.request.limit
        last == lastRead.request.page * lastRead.request.limit - 1
        onPage == {i \in M : first <= position(i) /\ position(i) <= last}
    IN /\ ~lastRead.threw
       /\ Len(lastRead.data) = Cardinality(onPage)
       /\ \A k \in 1..Len(lastRead.data) :
            /\ lastRead.data[k].id \in onPage
            /\ position(lastRead.data[k].id) = first + k - 1
            /\ lastRead.data[k] = Visible(lastRead.mgr, lastRead.data[k].id)
       /\ lastRead.total = Cardinality(M)
       /\ lastRead.page = lastRead.request.page
       /\ lastRead.limit = lastRead.request.limit

\* page 2 of size 1 over two matching rows holds the older row
C24_Witness ==
  /\ lastRead.kind = "all"
  /\ lastRead.request = [page |-> 2, limit |-> 1]
  /\ lastRead.total = 2
  /\ Len(lastRead.data) = 1
  /\ lastRead.data[1].id = 1
  /\ \E i \in Ids : db[i] # NoRow /\ db[i].createdAt > lastRead.data[1].createdAt

\* C25: every pagination request that findAll turns into a query has page >= 1 and
\* limit > 0, so the offset handed to the store is never negative and the page
\* size never zero or negative.
C25_PaginationInvariant ==
  lastRead.kind = "all" =>
    /\ lastRead.request.page >= 1
    /\ lastRead.request.limit > 0
    /\ lastRead.query.skip >= 0
    /\ lastRead.query.take > 0
C27_Step ==
  (getRes = NoGet /\ getRes' # NoGet) =>
    LET i == getRes'.inst
        via == getRes'.via
        resolved ==
          IF via = "get" THEN {getRes'.key}
          ELSE IF via = "ApplicationPort" THEN {"APP_PORT"}
          ELSE IF via = "databaseURL" THEN {"DATABASE_URL"}
          ELSE IF via = "frontendURL" THEN {"FRONTEND_DEV_URL", "FRONTEND_PROD_URL"}
          ELSE IF via = "apiPrefix" THEN {"APP_PREFIX"}
          ELSE IF via = "currentEnv" THEN {"NODE_ENV"}
          ELSE {}
        changed == {k \in ConfigKeys : cache'[i][k] # cache[i][k]}
    IN /\ \A j \in Instances \ {i} : cache'[j] = cache[j]
       /\ changed \subseteq resolved
       /\ Cardinality(changed) <= 1
       /\ \A k \in changed : cache[i][k] = Undef /\ cache'[i][k] = store[k]

C27_CacheFrame == [][C27_Step]_vars

\* frontendURL has just filled one entry of a cache that holds others, and
\* isProd has been read since without touching it
C27_Witness ==
  /\ getRes.via = "isProd"
  /\ cache["di"]["FRONTEND_PROD_URL"] # Undef
  /\ cache["di"]["FRONTEND_DEV_URL"] = Undef
  /\ cache["di"]["APP_PORT"] # Undef
  /\ cache["zod"]["DATABASE_URL"] # Undef
  /\ cache["zod"]["APP_PORT"] = Undef
\* C28: after any interleaving of concurrent registerUser calls that carry the
\* same email, at most one user with that email exists in the store.
C28_OneUserPerEmail ==
  \A c, d \in Calls :
    (/\ c # d
     /\ op[c].kind = "register" /\ op[d].kind = "register"
     /\ op[c].customer.email = op[d].customer.email
     /\ pc[c] = "done" /\ pc[d] = "done")
    => Cardinality({i \in Ids : /\ db[i] # NoRow
                                /\ ~db[i].deleteAt
                                /\ db[i].email = op[c].customer.email}) <= 1

\* C29: the password registerUser persists for a new user is the hash that
\* protectPassword returns for the password the caller provided; the plaintext
\* password is never written to the store.
C29_PersistsHash ==
  \A c \in Calls :
    (op[c].kind = "register" /\ res[c].kind = "entity") =>
      LET provided == AsPassword(op[c].customer.password)
          row == res[c].entity
      IN /\ row.password \in {HashPassword(provided, s) : s \in Salts}
         /\ row.password # StringOf(provided)
         /\ \A t \in Calls : writes[t][row.id].password # StringOf(provided)
         /\ db[row.id].password # StringOf(provided)

\* C30: two concurrent update(id, p) calls on the same existing id, each in its
\* own transaction, never reach a state in which each holds the shared lock of
\* the existence check and waits for the other to release it before its UPDATE.
C30_NoMutualWait ==
  ~ \E c, d \in Calls :
      /\ c # d
      /\ shape[c] = "owned" /\ shape[d] = "owned"
      /\ op[c].kind = "update" /\ op[d].kind = "update"
      /\ op[c].id = op[d].id
      /\ op[c].data # NoData /\ op[d].data # NoData
      /\ pc[c] = "update" /\ pc[d] = "update"
      /\ op[c].id \in shareLock[c] /\ op[c].id \in shareLock[d]
      /\ ~CanWrite(c, op[c].id) /\ ~CanWrite(d, op[d].id)
====
